---- MODULE Spec2Model ----
(***************************************************************************)
(* Model of models/ir_action_report.py: the override of                    *)
(* ir.actions.report._render_qweb_pdf that appends the PDF attachments of  *)
(* a sales order's product templates to the rendered report.               *)
(*                                                                         *)
(* Byte strings are sequences of integers 0..255.  base64 is modelled as   *)
(* CPython's binascii does it (non-strict a2b_base64).  The PDF library is *)
(* an external collaborator; it is modelled by a small document format:    *)
(*     %PDF <version digit> <one lowercase letter per page> E              *)
(* whose reader rejects anything else and whose writer always writes       *)
(* version 3, so that writing what was read is not the identity.           *)
(***************************************************************************)
EXTENDS Integers, Sequences, FiniteSets, TLC

\* Largest number of product.template PDF attachment records in the store.
MaxAtt == 3

(***************************************************************************)
(* base64, as base64.b64decode / b64encode compute it                      *)
(***************************************************************************)

\* table_a2b_base64: the 6-bit value of an alphabet character, 64 otherwise.
B64Index(c) ==
    IF c >= 65 /\ c <= 90 THEN c - 65
    ELSE IF c >= 97 /\ c <= 122 THEN c - 71
    ELSE IF c >= 48 /\ c <= 57 THEN c + 4
    ELSE IF c = 43 THEN 62
    ELSE IF c = 47 THEN 63
    ELSE 64

\* table_b2a_base64: the alphabet character of a 6-bit value.
B64Char(v) ==
    IF v <= 25 THEN v + 65
    ELSE IF v <= 51 THEN v + 71
    ELSE IF v <= 61 THEN v - 4
    ELSE IF v = 62 THEN 43
    ELSE 47

\* binascii.a2b_base64 with strict_mode off: characters outside the alphabet
\* are skipped, a complete pad sequence ends the input, and a dangling quad
\* is an error (binascii.Error).
RECURSIVE a2b_base64(_, _, _, _, _, _)
a2b_base64(data, i, quad_pos, leftchar, pads, out) ==
    IF i > Len(data)
    THEN IF quad_pos # 0 THEN [err |-> TRUE, val |-> <<>>]
                         ELSE [err |-> FALSE, val |-> out]
    ELSE LET c == data[i]
             v == B64Index(c)
         IN IF c = 61
            THEN IF quad_pos >= 2 /\ quad_pos + pads + 1 >= 4
                 THEN [err |-> FALSE, val |-> out]
                 ELSE a2b_base64(data, i + 1, quad_pos, leftchar,
                                 IF quad_pos >= 2 THEN pads + 1 ELSE pads, out)
            ELSE IF v >= 64
            THEN a2b_base64(data, i + 1, quad_pos, leftchar, pads, out)
            ELSE IF quad_pos = 0
            THEN a2b_base64(data, i + 1, 1, v, 0, out)
            ELSE IF quad_pos = 1
            THEN a2b_base64(data, i + 1, 2, v % 16, 0,
                            Append(out, leftchar * 4 + v \div 16))
            ELSE IF quad_pos = 2
            THEN a2b_base64(data, i + 1, 3, v % 4, 0,
                            Append(out, leftchar * 16 + v \div 4))
            ELSE a2b_base64(data, i + 1, 0, 0, 0,
                            Append(out, leftchar * 64 + v))

\* base64.b64decode(s) with its default validate=False.
b64decode(s) == a2b_base64(s, 1, 0, 0, 0, <<>>)

\* base64.b64encode(s): how the attachment store encodes a payload.
RECURSIVE b64encode(_)
b64encode(s) ==
    IF Len(s) = 0 THEN <<>>
    ELSE IF Len(s) = 1
    THEN <<B64Char(s[1] \div 4), B64Char((s[1] % 4) * 16), 61, 61>>
    ELSE IF Len(s) = 2
    THEN <<B64Char(s[1] \div 4), B64Char((s[1] % 4) * 16 + s[2] \div 16),
           B64Char((s[2] % 16) * 4), 61>>
    ELSE <<B64Char(s[1] \div 4), B64Char((s[1] % 4) * 16 + s[2] \div 16),
           B64Char((s[2] % 16) * 4 + s[3] \div 64), B64Char(s[3] % 64)>>
         \o b64encode(SubSeq(s, 4, Len(s)))

(***************************************************************************)
(* The PDF library                                                         *)
(***************************************************************************)

\* b'%PDF'
PdfSignature == <<37, 80, 68, 70>>

\* The signature test of the override itself.
HasPdfSignature(pdf_data) ==
    ~(Len(pdf_data) < 4 \/ SubSeq(pdf_data, 1, 4) # PdfSignature)

\* PyPDF2.PdfReader(buffer): the pages of a well-formed document, an error
\* (PdfReadError or another exception) for anything else.
PdfReader(bytes) ==
    IF /\ Len(bytes) >= 6
       /\ SubSeq(bytes, 1, 4) = PdfSignature
       /\ bytes[5] >= 48 /\ bytes[5] <= 57
       /\ bytes[Len(bytes)] = 69
       /\ \A k \in 6..(Len(bytes) - 1) : bytes[k] >= 97 /\ bytes[k] <= 122
    THEN [err |-> FALSE, pages |-> SubSeq(bytes, 6, Len(bytes) - 1)]
    ELSE [err |-> TRUE, pages |-> <<>>]

\* All pages of the merger's documents, in order.
RECURSIVE MergerPages(_)
MergerPages(docs) ==
    IF docs = <<>> THEN <<>> ELSE Head(docs) \o MergerPages(Tail(docs))

\* merger.write(buffer): one document holding every page of the merger.
MergerWrite(docs) == PdfSignature \o <<51>> \o MergerPages(docs) \o <<69>>

(***************************************************************************)
(* The host's records: sale orders, their lines, products and templates    *)
(***************************************************************************)

\* sale.order ids for which browse(id).exists() holds.
ExistingOrders == {1, 2, 4, 5}

\* order_line of each order, as the product_id of each line (0: a line
\* without a product, such as a section or a note).
OrderLines ==
    [o \in ExistingOrders |->
        IF o = 1 THEN <<11, 12, 0, 11>>
        ELSE IF o = 2 THEN <<13>>
        ELSE IF o = 5 THEN <<0>>
        ELSE <<>>]

\* product_tmpl_id of each product.product: 11 and 12 are variants of 21.
ProductTemplate == [p \in {11, 12, 13} |-> IF p = 13 THEN 22 ELSE 21]

\* The docids arguments a caller passes.
DocIdChoices ==
    {<<>>, <<1>>, <<2>>, <<3>>, <<4>>, <<5>>, <<1, 2>>, <<2, 1>>, <<3, 1>>}

\* The report descriptors _get_report can resolve report_ref to.
Reports ==
    [report_name : {"sale.report_saleorder", "account.report_invoice"},
     model : {"sale.order", "account.move"}]

(***************************************************************************)
(* Payloads and attachment records                                         *)
(***************************************************************************)

\* Documents: "%PDF4" pages "E".
PdfBase == <<37, 80, 68, 70, 52, 114, 115, 69>>
PdfA == <<37, 80, 68, 70, 52, 97, 69>>
PdfBC == <<37, 80, 68, 70, 52, 98, 99, 69>>
PdfXYZ == <<37, 80, 68, 70, 52, 120, 121, 122, 69>>
PdfW == <<37, 80, 68, 70, 52, 119, 69>>
PdfNoPages == <<37, 80, 68, 70, 52, 69>>
PdfTruncated == <<37, 80, 68, 70, 52, 97>>
Gif == <<71, 73, 70, 56, 57, 97>>
HtmlPage == <<60, 112, 62>>

\* What the parent _render_qweb_pdf can return: a PDF, nothing, or the html
\* fallback.
SuperReturns ==
    {[content |-> PdfBase, type |-> "pdf"],
     [content |-> <<>>, type |-> "pdf"],
     [content |-> HtmlPage, type |-> "html"]}

\* attachment.datas: a str, a bytes, False, or a value of another type.
Datas(type, val) == [type |-> type, val |-> val]

\* An ir.attachment record; readable is FALSE when reading a field raises.
Att(res_model, res_id, mimetype, datas, readable) ==
    [res_model |-> res_model, res_id |-> res_id, mimetype |-> mimetype,
     datas |-> datas, readable |-> readable]

\* The PDF attachments template 21 can own.
TemplateAttachments ==
    {Att("product.template", 21, "application/pdf", d, TRUE) :
        d \in {Datas("bytes", b64encode(PdfA)),
               Datas("str", b64encode(PdfBC)),
               Datas("bytes", PdfA),
               Datas("bytes", PdfXYZ),
               Datas("false", <<>>),
               Datas("bytes", b64encode(Gif)),
               Datas("bytes", b64encode(SubSeq(Gif, 1, 3))),
               Datas("bytes", b64encode(PdfTruncated)),
               Datas("bytes", b64encode(PdfNoPages)),
               Datas("str", SubSeq(b64encode(PdfA), 1, 5)),
               Datas("other", <<1>>)}}
    \cup {Att("product.template", 21, "application/pdf",
              Datas("bytes", b64encode(PdfA)), FALSE)}

\* Records that are always in the store beside those of template 21: a
\* non-PDF attachment of template 21, a PDF of another model with the same
\* res_id, a PDF of a template no order refers to (its id is a product's),
\* and a PDF of template 22.
PngOfTemplate ==
    Att("product.template", 21, "image/png", Datas("bytes", b64encode(PdfW)), TRUE)
PdfOfProduct ==
    Att("product.product", 21, "application/pdf", Datas("bytes", b64encode(PdfW)), TRUE)
PdfOfOtherTemplate ==
    Att("product.template", 11, "application/pdf", Datas("bytes", b64encode(PdfW)), TRUE)
PdfOfTemplate22 ==
    Att("product.template", 22, "application/pdf", Datas("bytes", b64encode(PdfW)), TRUE)

\* Sequences over S of length at most n.
SeqUpTo(S, n) == UNION {[1..k -> S] : k \in 0..n}

\* The contents of ir.attachment, in id order: a record's id is its index.
Stores ==
    {<<PngOfTemplate>> \o own \o <<PdfOfProduct, PdfOfOtherTemplate, PdfOfTemplate22>> :
        own \in SeqUpTo(TemplateAttachments, MaxAtt)}

(***************************************************************************)
(* The override's helpers                                                  *)
(***************************************************************************)

\* Faulty variant of EnrichmentApplies: the report's model is not tested.
EnrichmentApplies_AnyModel(rep, ids, content) ==
    /\ rep.report_name = "sale.report_saleorder"
    /\ ids # <<>>
    /\ content # <<>>

\* The guard of the enrichment: the report is the sales-order report, and
\* docids and pdf_content are truthy.
EnrichmentApplies(rep, ids, content) ==
    /\ rep.report_name = "sale.report_saleorder"
    /\ rep.model = "sale.order"
    /\ ids # <<>>
    /\ content # <<>>

\* Faulty variant of FirstDocId: docids[-1].
FirstDocId_Last(ids) == ids[Len(ids)]

\* docids[0]: the order the attachments are looked up for.
FirstDocId(ids) == ids[1]

\* record.order_line.mapped('product_id'): the products of the lines.
OrderProducts(order) ==
    {OrderLines[order][k] : k \in DOMAIN OrderLines[order]} \ {0}

\* product_ids.mapped('product_tmpl_id').ids
TemplateIds(product_ids) == {ProductTemplate[p] : p \in product_ids}

\* Faulty variant of SearchDomain: no condition on the mimetype.
SearchDomain_AnyMimetype(att, product_template_ids) ==
    /\ att.res_model = "product.template"
    /\ att.res_id \in product_template_ids

\* The search domain on ir.attachment.
SearchDomain(att, product_template_ids) ==
    /\ att.res_model = "product.template"
    /\ att.res_id \in product_template_ids
    /\ att.mimetype = "application/pdf"

\* self.env['ir.attachment'].search(domain): the ids of the matching records,
\* in id order.
Search(st, product_template_ids) ==
    SelectSeq([i \in 1..Len(st) |-> i],
              LAMBDA i : SearchDomain(st[i], product_template_ids))

\* _get_product_attachments(record); lookupOk is FALSE when a lookup raises.
get_product_attachments(order, st, lookupOk) ==
    IF ~lookupOk THEN <<>>
    ELSE IF OrderLines[order] # <<>> /\ OrderProducts(order) # {}
    THEN Search(st, TemplateIds(OrderProducts(order)))
    ELSE <<>>

\* The decoding of attachment.datas: "ok" with the decoded bytes, "raise" when
\* b64decode of a str raises, "invalid" for a value of another type.
DecodeDatas(datas) ==
    IF datas.type = "str"
    THEN LET d == b64decode(datas.val)
         IN IF d.err THEN [tag |-> "raise", val |-> <<>>]
                     ELSE [tag |-> "ok", val |-> d.val]
    ELSE IF datas.type = "bytes"
    THEN LET d == b64decode(datas.val)
         IN IF d.err THEN [tag |-> "ok", val |-> datas.val]
                     ELSE [tag |-> "ok", val |-> d.val]
    ELSE [tag |-> "invalid", val |-> <<>>]

\* not attachment.datas
NoData(datas) == datas.type = "false" \/ (datas.type # "other" /\ datas.val = <<>>)

\* The three ways _append_single_attachment ends.
Rejected(docs) == [ret |-> FALSE, raised |-> FALSE, merger |-> docs]
Raised(docs) == [ret |-> FALSE, raised |-> TRUE, merger |-> docs]
Appended(docs) == [ret |-> TRUE, raised |-> FALSE, merger |-> docs]

\* Faulty variant of append_single_attachment: the document is appended
\* before its pages are counted, so a PDF without pages is in the merger
\* although it is reported as not appended.
append_single_attachment_AppendFirst(docs, att, appendOk) ==
    IF ~att.readable THEN Raised(docs)
    ELSE IF NoData(att.datas) THEN Rejected(docs)
    ELSE LET dec == DecodeDatas(att.datas)
             reader == PdfReader(dec.val)
         IN IF dec.tag # "ok" THEN Rejected(docs)
            ELSE IF ~HasPdfSignature(dec.val) THEN Rejected(docs)
            ELSE IF reader.err \/ ~appendOk THEN Rejected(docs)
            ELSE IF Len(reader.pages) = 0 THEN Rejected(Append(docs, reader.pages))
            ELSE Appended(Append(docs, reader.pages))

\* _append_single_attachment(merger, attachment).  appendOk is FALSE when
\* merger.append raises; PdfMerger inserts a document's pages as its last
\* step, so a failed append leaves the merger's pages as they were.  Reading
\* a field of an unreadable record raises, also in the except clause that
\* logs attachment.name, and that exception leaves the method.
append_single_attachment(docs, att, appendOk) ==
    IF ~att.readable THEN Raised(docs)
    ELSE IF NoData(att.datas) THEN Rejected(docs)
    ELSE LET dec == DecodeDatas(att.datas)
             reader == PdfReader(dec.val)
         IN IF dec.tag # "ok" THEN Rejected(docs)
            ELSE IF ~HasPdfSignature(dec.val) THEN Rejected(docs)
            ELSE IF reader.err \/ Len(reader.pages) = 0 THEN Rejected(docs)
            ELSE IF ~appendOk THEN Rejected(docs)
            ELSE Appended(Append(docs, reader.pages))

\* Faulty variant of MergedBuffer: the merger is written whatever
\* appended_count is.
MergedBuffer_IgnoringCount(count, docs, writeOk) ==
    IF writeOk
    THEN [none |-> FALSE, val |-> MergerWrite(docs)]
    ELSE [none |-> TRUE, val |-> <<>>]

\* Faulty variant of MergedBuffer: when merger.write raises, the buffer is
\* returned with what had been written to it.
MergedBuffer_KeepingFailedWrite(count, docs, writeOk) ==
    IF count > 0
    THEN [none |-> FALSE,
          val |-> IF writeOk THEN MergerWrite(docs) ELSE PdfSignature \o <<51>>]
    ELSE [none |-> TRUE, val |-> <<>>]

\* The end of _append_attachments_to_pdf: the merged buffer when something
\* was appended and merger.write succeeds, None otherwise.
MergedBuffer(count, docs, writeOk) ==
    IF count > 0 /\ writeOk
    THEN [none |-> FALSE, val |-> MergerWrite(docs)]
    ELSE [none |-> TRUE, val |-> <<>>]

\* What _render_qweb_pdf returns after the merge.
RenderReturn(buffer, content, type) ==
    [kind |-> "returned",
     content |-> IF buffer.none THEN content ELSE buffer.val,
     type |-> type, at |-> "none"]

\* An exception leaving _render_qweb_pdf from the named step.
RenderRaise(step) == [kind |-> "raised", content |-> <<>>, type |-> "none", at |-> step]

NoBuffer == [none |-> TRUE, val |-> <<>>]

(***************************************************************************)
(* One call of _render_qweb_pdf(report_ref, docids)                        *)
(***************************************************************************)

VARIABLES
    pc,              \* the step the call is at
    docids,          \* the docids argument
    pdf_content,     \* the bytes the parent returned
    report_type,     \* the format tag the parent returned
    report,          \* the report descriptor _get_report returned
    store,           \* ir.attachment as the search found it (<<>> before)
    attachments,     \* product_attachments: the ids the search returned
    merger,          \* the documents of the PdfMerger (<<>>: no merger)
    appended_count,  \* appended_count
    idx,             \* the position of the loop in attachments
    outcome,         \* what became of each attachment the loop has processed
    libError,        \* the PDF library call that raised, "none" if none did
    lookupRaised,    \* whether a lookup of _get_product_attachments raised
    result           \* what the call returned or raised

vars == <<pc, docids, pdf_content, report_type, report, store, attachments,
          merger, appended_count, idx, outcome, libError, lookupRaised, result>>

NoReport == [report_name |-> "none", model |-> "none"]
NoResult == [kind |-> "none", content |-> <<>>, type |-> "none", at |-> "none"]

Init ==
    /\ pc = "super"
    /\ docids \in DocIdChoices
    /\ pdf_content = <<>>
    /\ report_type = "none"
    /\ report = NoReport
    /\ store = <<>>
    /\ attachments = <<>>
    /\ merger = <<>>
    /\ appended_count = 0
    /\ idx = 1
    /\ outcome = <<>>
    /\ libError = "none"
    /\ lookupRaised = FALSE
    /\ result = NoResult

\* The call ends with r.
Return(r) == pc' = "done" /\ result' = r

\* super()._render_qweb_pdf(report_ref, docids, data=data): its exception
\* leaves the override.
render_super ==
    /\ pc = "super"
    /\ \E out \in SuperReturns, raises \in BOOLEAN :
          IF raises
          THEN /\ Return(RenderRaise("super"))
               /\ UNCHANGED <<pdf_content, report_type>>
          ELSE /\ pdf_content' = out.content
               /\ report_type' = out.type
               /\ pc' = "get_report"
               /\ UNCHANGED result
    /\ UNCHANGED <<docids, report, store, attachments, merger, appended_count,
                   idx, outcome, libError, lookupRaised>>

\* report = self._get_report(report_ref), outside any try.
get_report ==
    /\ pc = "get_report"
    /\ \E rep \in Reports, raises \in BOOLEAN :
          IF raises
          THEN Return(RenderRaise("get_report")) /\ UNCHANGED report
          ELSE report' = rep /\ pc' = "check" /\ UNCHANGED result
    /\ UNCHANGED <<docids, pdf_content, report_type, store, attachments, merger,
                   appended_count, idx, outcome, libError, lookupRaised>>

\* The if that guards the enrichment, and the last return when it fails.
check_report ==
    /\ pc = "check"
    /\ IF EnrichmentApplies(report, docids, pdf_content)
       THEN pc' = "browse" /\ UNCHANGED result
       ELSE Return(RenderReturn(NoBuffer, pdf_content, report_type))
    /\ UNCHANGED <<docids, pdf_content, report_type, report, store, attachments,
                   merger, appended_count, idx, outcome, libError, lookupRaised>>

\* record = browse(docids[0]); if record.exists(): an exception is caught by
\* the except of the override.
browse_order ==
    /\ pc = "browse"
    /\ \E raises \in BOOLEAN :
          IF ~raises /\ FirstDocId(docids) \in ExistingOrders
          THEN pc' = "resolve" /\ UNCHANGED result
          ELSE Return(RenderReturn(NoBuffer, pdf_content, report_type))
    /\ UNCHANGED <<docids, pdf_content, report_type, report, store, attachments,
                   merger, appended_count, idx, outcome, libError, lookupRaised>>

\* product_attachments = self._get_product_attachments(record), and the if
\* on it; the store is what ir.attachment holds when it is searched.
resolve_attachments ==
    /\ pc = "resolve"
    /\ \E st \in Stores, lookupOk \in BOOLEAN :
          /\ store' = st
          /\ lookupRaised' = ~lookupOk
          /\ attachments' = get_product_attachments(FirstDocId(docids), st, lookupOk)
    /\ IF attachments' # <<>>
       THEN pc' = "merge" /\ UNCHANGED result
       ELSE Return(RenderReturn(NoBuffer, pdf_content, report_type))
    /\ UNCHANGED <<docids, pdf_content, report_type, report, merger,
                   appended_count, idx, outcome, libError>>

\* merger = PdfMerger(); merger.append(original_buffer): the reader's error
\* is caught by the outer except, which returns None.
merge_init ==
    /\ pc = "merge"
    /\ LET reader == PdfReader(pdf_content)
       IN IF reader.err
          THEN /\ libError' = "append_base"
               /\ Return(RenderReturn(NoBuffer, pdf_content, report_type))
               /\ UNCHANGED merger
          ELSE /\ merger' = <<reader.pages>>
               /\ pc' = "loop"
               /\ UNCHANGED <<libError, result>>
    /\ appended_count' = 0
    /\ idx' = 1
    /\ UNCHANGED <<docids, pdf_content, report_type, report, store, attachments,
                   outcome, lookupRaised>>

\* One pass of the for loop.  An exception leaving _append_single_attachment
\* is caught by the loop's except, whose log reads attachment.name and raises
\* again; the outer except then returns None.
merge_loop ==
    /\ pc = "loop"
    /\ idx <= Len(attachments)
    /\ \E appendOk \in BOOLEAN :
          LET att == store[attachments[idx]]
              r == append_single_attachment(merger, att, appendOk)
              valid == append_single_attachment(merger, att, TRUE).ret
          IN IF r.raised
             THEN /\ outcome' = Append(outcome, "raised")
                  /\ Return(RenderReturn(NoBuffer, pdf_content, report_type))
                  /\ UNCHANGED <<merger, appended_count, idx>>
             ELSE /\ merger' = r.merger
                  /\ appended_count' = IF r.ret THEN appended_count + 1
                                                ELSE appended_count
                  /\ outcome' = Append(outcome,
                                       IF r.ret THEN "appended"
                                       ELSE IF valid THEN "append_failed"
                                       ELSE "rejected")
                  /\ idx' = idx + 1
                  /\ UNCHANGED <<pc, result>>
    /\ UNCHANGED <<docids, pdf_content, report_type, report, store, attachments,
                   libError, lookupRaised>>

\* After the loop: write the merger when something was appended, and return.
merge_finish ==
    /\ pc = "loop"
    /\ idx > Len(attachments)
    /\ \E writeOk \in BOOLEAN :
          /\ libError' = IF appended_count > 0 /\ ~writeOk THEN "write" ELSE libError
          /\ Return(RenderReturn(MergedBuffer(appended_count, merger, writeOk),
                                 pdf_content, report_type))
    /\ UNCHANGED <<docids, pdf_content, report_type, report, store, attachments,
                   merger, appended_count, idx, outcome, lookupRaised>>

Next ==
    \/ render_super
    \/ get_report
    \/ check_report
    \/ browse_order
    \/ resolve_attachments
    \/ merge_init
    \/ merge_loop
    \/ merge_finish

Spec == Init /\ [][Next]_vars

(***************************************************************************)
(* Vocabulary of the properties                                            *)
(***************************************************************************)

\* The documents that are valid PDFs with at least one page.
ValidPdfs == {PdfA, PdfBC, PdfXYZ, PdfW}

\* The payload forms of a document: its base64 text as bytes or as str, or
\* its raw bytes.
PayloadForms(p) ==
    {Datas("bytes", b64encode(p)), Datas("str", b64encode(p)), Datas("bytes", p)}

ValidPayloads == UNION {PayloadForms(p) : p \in ValidPdfs}

\* An attachment that holds a valid PDF, in either form.
IsValidPdfAttachment(att) == att.readable /\ att.datas \in ValidPayloads

\* The pages of the document a valid attachment holds.
PagesOf(att) ==
    PdfReader(CHOOSE p \in ValidPdfs : att.datas \in PayloadForms(p)).pages

\* Documents that are not PDFs, or are PDFs that cannot be used.
BadDocuments == {Gif, SubSeq(Gif, 1, 3), PdfTruncated, PdfNoPages}

BadPayloads ==
    {Datas("false", <<>>)} \cup UNION {PayloadForms(p) : p \in BadDocuments}

\* An attachment whose payload is absent, too short, not a PDF, unparseable
\* or without pages.
IsMalformedAttachment(att) == att.readable /\ att.datas \in BadPayloads

\* The k-th attachment of the search result.
AttachmentAt(k) == store[attachments[k]]

\* The pages of the attachments among the first n that the loop appended.
RECURSIVE AppendedDocs(_)
AppendedDocs(n) ==
    IF n = 0 THEN <<>>
    ELSE IF outcome[n] = "appended"
    THEN Append(AppendedDocs(n - 1), PagesOf(AttachmentAt(n)))
    ELSE AppendedDocs(n - 1)

\* The pages of all of the first n attachments.
RECURSIVE AllDocs(_)
AllDocs(n) ==
    IF n = 0 THEN <<>> ELSE Append(AllDocs(n - 1), PagesOf(AttachmentAt(n)))

\* The pages of those of the first n attachments that hold a valid PDF.
RECURSIVE ValidDocs(_)
ValidDocs(n) ==
    IF n = 0 THEN <<>>
    ELSE IF IsValidPdfAttachment(AttachmentAt(n))
    THEN Append(ValidDocs(n - 1), PagesOf(AttachmentAt(n)))
    ELSE ValidDocs(n - 1)

BasePages == PdfReader(pdf_content).pages

Returned == pc = "done" /\ result.kind = "returned"

ReturnedOriginal ==
    Returned /\ result.content = pdf_content /\ result.type = report_type

\* The merge ran to its end with no failure of the PDF library.
MergeCompleted ==
    /\ Returned
    /\ merger # <<>>
    /\ libError = "none"
    /\ Len(outcome) = Len(attachments)
    /\ \A k \in DOMAIN outcome : outcome[k] \notin {"append_failed", "raised"}

\* The product templates of the lines of an order.
TemplatesOfOrder(o) ==
    IF o \in ExistingOrders
    THEN {ProductTemplate[OrderLines[o][k]] :
            k \in {j \in DOMAIN OrderLines[o] : OrderLines[o][j] # 0}}
    ELSE {}

\* A record of the store the resolver has to return for order o.
Wanted(att, o) ==
    /\ att.res_model = "product.template"
    /\ att.res_id \in TemplatesOfOrder(o)
    /\ att.mimetype = "application/pdf"

Occurrences(seq, x) == Cardinality({k \in DOMAIN seq : seq[k] = x})

(***************************************************************************)
(* Properties                                                              *)
(***************************************************************************)

\* C1: when the call returns and no attachment was appended (none found, or
\* every one rejected), the bytes and the format tag returned are exactly
\* those of the rendering pipeline.
C1_NothingAppendedReturnsBase ==
    (Returned /\ \A k \in DOMAIN outcome : outcome[k] # "appended")
        => (result.content = pdf_content /\ result.type = report_type)

\* C1 witness: the loop rejected every one of two or more attachments and the
\* call returned the base PDF.
C1_Witness ==
    /\ Returned
    /\ Len(attachments) >= 2
    /\ Len(outcome) = Len(attachments)
    /\ \A k \in DOMAIN outcome : outcome[k] = "rejected"
    /\ result.content = PdfBase

\* C2: when every attachment holds a valid PDF and the merge completes, the
\* output is the base document followed by each attachment's pages in the
\* order supplied, and its page count is the sum of the page counts.
C2_AllValidAppendedInOrder ==
    (MergeCompleted /\ \A k \in DOMAIN attachments : IsValidPdfAttachment(AttachmentAt(k)))
        => /\ ~PdfReader(result.content).err
           /\ PdfReader(result.content).pages =
                 BasePages \o MergerPages(AllDocs(Len(attachments)))
           /\ Len(PdfReader(result.content).pages) =
                 Len(BasePages) + Len(MergerPages(AllDocs(Len(attachments))))

\* C3: with exactly one malformed attachment among valid ones, at any
\* position, the loop processes every attachment and the output is the base
\* followed by exactly the valid ones, in order.
C3_OneMalformedIsSkipped ==
    (/\ MergeCompleted
     /\ Cardinality({k \in DOMAIN attachments : IsMalformedAttachment(AttachmentAt(k))}) = 1
     /\ \A k \in DOMAIN attachments :
           IsMalformedAttachment(AttachmentAt(k)) \/ IsValidPdfAttachment(AttachmentAt(k)))
        => /\ \A k \in DOMAIN attachments :
                 outcome[k] = "appended" <=> IsValidPdfAttachment(AttachmentAt(k))
           /\ PdfReader(result.content).pages =
                 BasePages \o MergerPages(ValidDocs(Len(attachments)))

\* C4: a valid PDF is accepted in its base64 form and in its raw-byte form
\* alike, and what is appended for it is the same document.
C4_BothPayloadFormsAccepted ==
    \A k \in DOMAIN outcome :
        (IsValidPdfAttachment(AttachmentAt(k)) /\ outcome[k] # "append_failed")
            => /\ outcome[k] = "appended"
               /\ append_single_attachment(<<>>, AttachmentAt(k), TRUE).merger
                     = <<PagesOf(AttachmentAt(k))>>

\* The four conditions of the enrichment, as the specification states them.
C5_Conditions ==
    /\ report.report_name = "sale.report_saleorder"
    /\ report.model = "sale.order"
    /\ Len(docids) > 0
    /\ Len(pdf_content) > 0

\* C5: the enrichment is attempted only under the four conditions; when one
\* fails the call returns the pipeline's bytes and tag and nothing is looked
\* up or merged.
C5_PassThroughUnlessAllFour ==
    (report # NoReport /\ pc # "check" /\ ~C5_Conditions)
        => /\ ReturnedOriginal
           /\ store = <<>> /\ attachments = <<>> /\ merger = <<>> /\ outcome = <<>>

\* C5 witness: the sales-order report name with another model, documents and
\* a rendered PDF, passed through.
C5_Witness ==
    /\ ReturnedOriginal
    /\ report.report_name = "sale.report_saleorder"
    /\ report.model # "sale.order"
    /\ docids = <<1, 2>>
    /\ pdf_content = PdfBase

\* C6: once the pipeline has returned, no exception reaches the caller: only
\* the pipeline's own failure propagates.
C6_OnlyPipelineFailurePropagates ==
    (pc = "done" /\ result.kind = "raised") => result.at = "super"

\* C7: when the PDF library raises while the merger is built from the base
\* bytes or while it is written, the call returns the original bytes and tag.
C7_LibraryFailureReturnsOriginal ==
    (pc = "done" /\ libError # "none") => ReturnedOriginal

\* C7 witness: the write failed after two attachments had been appended.
C7_Witness ==
    /\ pc = "done"
    /\ libError = "write"
    /\ appended_count >= 2
    /\ Len(merger) >= 3
    /\ result.content = PdfBase

\* C8: the resolver returns exactly the records of the store owned by a
\* product template of one of the order's lines and declared as PDF, each
\* once, and nothing when the order has no such line or a lookup raised.
C8_ResolverReturnsExactlyOwnedPdfs ==
    store # <<>>
        => /\ \A k \in DOMAIN attachments : attachments[k] \in DOMAIN store
           /\ \A i \in DOMAIN store :
                 Occurrences(attachments, i) =
                    IF ~lookupRaised /\ Wanted(store[i], docids[1]) THEN 1 ELSE 0

\* C8 witness: order 1, whose lines share template 21, with two PDFs of that
\* template in the store beside the records that must be left out.
C8_Witness ==
    /\ store # <<>>
    /\ ~lookupRaised
    /\ docids[1] = 1
    /\ Len(attachments) = 2
    /\ store[1] = PngOfTemplate

\* C9: in every state of the merge and on every return, the merger holds the
\* base document followed by the documents of exactly the attachments
\* reported appended, in order; appended_count counts them; and the bytes
\* returned are the original or hold exactly those pages.
C9_AccumulatorHoldsExactlyTheAppended ==
    merger # <<>>
        => /\ \A k \in DOMAIN outcome :
                 outcome[k] = "appended" => IsValidPdfAttachment(AttachmentAt(k))
           /\ merger = <<BasePages>> \o AppendedDocs(Len(outcome))
           /\ appended_count = Len(merger) - 1
           /\ Returned =>
                 \/ result.content = pdf_content
                 \/ PdfReader(result.content).pages = MergerPages(merger)

\* C9 witness: a merged result after one attachment was appended, one was
\* rejected and the append of one raised.
C9_Witness ==
    /\ Returned
    /\ result.content # pdf_content
    /\ \E k \in DOMAIN outcome : outcome[k] = "appended"
    /\ \E k \in DOMAIN outcome : outcome[k] = "rejected"
    /\ \E k \in DOMAIN outcome : outcome[k] = "append_failed"

\* C10: only the first document id is used: what is appended comes from the
\* first document's templates alone, and a first document that does not
\* exist leaves the original bytes.
C10_OnlyFirstDocumentUsed ==
    (Returned /\ Len(docids) > 0)
        => /\ docids[1] \notin ExistingOrders => ReturnedOriginal
           /\ \A k \in DOMAIN attachments :
                 AttachmentAt(k).res_id \in TemplatesOfOrder(docids[1])
           /\ \A i \in DOMAIN store :
                 (/\ IsValidPdfAttachment(store[i])
                  /\ ~Wanted(store[i], docids[1])
                  /\ \E j \in 2..Len(docids) : Wanted(store[i], docids[j]))
                    => /\ \A k \in DOMAIN attachments : attachments[k] # i
                       /\ \A n \in DOMAIN PdfReader(result.content).pages :
                             \A m \in DOMAIN PagesOf(store[i]) :
                                PdfReader(result.content).pages[n] # PagesOf(store[i])[m]

\* C10 witness: two documents, the second with a PDF of its own in the
\* store, and a merged result.
C10_Witness ==
    /\ Returned
    /\ docids = <<1, 2>>
    /\ result.content # pdf_content
    /\ store[Len(store)] = PdfOfTemplate22

====
